---- MODULE Spec2Model ----
(***************************************************************************)
(* A model of the YooKassa client of src/src/lib.rs: the request pipeline  *)
(* (send_request and the five operations), the response classifier         *)
(* (process_response) and the serde schemas of the types that travel over  *)
(* the wire.                                                               *)
(*                                                                         *)
(* A call is one invocation of an operation on the shared client. It is    *)
(* split at the points where the code awaits the transport: the operation  *)
(* builds and dispatches its request, then send() returns an error or a    *)
(* response, then process_response turns the response into the result.     *)
(***************************************************************************)
EXTENDS Integers, Sequences, FiniteSets, TLC

\* The number of calls made on the client in one behaviour.
MaxCalls == 2

(***************************************************************************)
(* Option<T> and Result<T, E>                                              *)
(***************************************************************************)
None == [some |-> FALSE]
Some(v) == [some |-> TRUE, v |-> v]

Ok(v) == [ok |-> TRUE, v |-> v]
Fail(e) == [ok |-> FALSE, err |-> e]

(***************************************************************************)
(* JSON documents, as serde_json sees them after lexing. An object is a    *)
(* function from its keys to its values, an array a sequence.              *)
(***************************************************************************)
Str(s) == [t |-> "string", s |-> s]
Bool(b) == [t |-> "bool", b |-> b]
Num(n) == [t |-> "number", n |-> n]
Null == [t |-> "null"]
Obj(f) == [t |-> "object", o |-> f]
Arr(a) == [t |-> "array", a |-> a]
EmptyObject == Obj(<<>>)

(***************************************************************************)
(* The text of a body. Text that is well-formed JSON is kept as the        *)
(* document it spells; any other text is kept as its characters.           *)
(***************************************************************************)
JsonText(doc) == [kind |-> "json", doc |-> doc]
PlainText(s) == [kind |-> "text", text |-> s]

(***************************************************************************)
(* The serde schemas. A field is its key on the wire, its name in the      *)
(* struct, its type, whether it is an Option, whether a None is skipped    *)
(* when serializing, and whether it is a Vec of its type.                  *)
(***************************************************************************)
Field(key, name, ty, opt, skip, vec) ==
    [key |-> key, name |-> name, ty |-> ty, opt |-> opt, skip |-> skip, vec |-> vec]
Req(name, ty) == Field(name, name, ty, FALSE, FALSE, FALSE)
ReqVec(name, ty) == Field(name, name, ty, FALSE, FALSE, TRUE)
Opt(name, ty) == Field(name, name, ty, TRUE, TRUE, FALSE)
OptVec(name, ty) == Field(name, name, ty, TRUE, TRUE, TRUE)
OptKept(name, ty) == Field(name, name, ty, TRUE, FALSE, FALSE)
Renamed(key, name, ty) == Field(key, name, ty, FALSE, FALSE, FALSE)

YooKassaApiError ==
    << Renamed("type", "error_type", "String"), Req("id", "String"),
       Req("code", "String"), Req("description", "String"),
       Opt("parameter", "String") >>

Amount == << Req("value", "String"), Req("currency", "String") >>

ConfirmationRequest ==
    << Renamed("type", "confirmation_type", "String"), Req("return_url", "String"),
       Opt("enforce", "bool"), Opt("locale", "String") >>

PaymentMethodData ==
    << Renamed("type", "payment_method_type", "String"), Opt("card", "CardData"),
       Opt("login", "String"), Opt("phone", "String") >>

CardData ==
    << Req("number", "String"), Req("expiry_year", "String"),
       Req("expiry_month", "String"), Opt("csc", "String"),
       Opt("cardholder", "String") >>

\* CreatePaymentRequest with the skip_serializing_if of description forgotten.
CreatePaymentRequest_description_kept ==
    << Req("amount", "Amount"), OptKept("description", "String"),
       Opt("payment_method_data", "PaymentMethodData"),
       Opt("confirmation", "ConfirmationRequest"), Opt("capture", "bool"),
       Opt("save_payment_method", "bool"), Opt("metadata", "Value"),
       Opt("receipt", "Receipt"), Opt("payment_token", "String"),
       Opt("payment_method_id", "String"), Opt("client_ip", "String") >>

CreatePaymentRequest ==
    << Req("amount", "Amount"), Opt("description", "String"),
       Opt("payment_method_data", "PaymentMethodData"),
       Opt("confirmation", "ConfirmationRequest"), Opt("capture", "bool"),
       Opt("save_payment_method", "bool"), Opt("metadata", "Value"),
       Opt("receipt", "Receipt"), Opt("payment_token", "String"),
       Opt("payment_method_id", "String"), Opt("client_ip", "String") >>

CapturePaymentRequest == << Opt("amount", "Amount"), Opt("receipt", "Receipt") >>

ConfirmationResponse ==
    << Renamed("type", "confirmation_type", "String"),
       Opt("confirmation_url", "String"), Opt("return_url", "String"),
       Opt("enforce", "bool"), Opt("locale", "String"),
       Opt("confirmation_data", "String") >>

Recipient == << Req("account_id", "String"), Req("gateway_id", "String") >>

CardDetails ==
    << OptKept("first6", "String"), Req("last4", "String"),
       Req("expiry_year", "String"), Req("expiry_month", "String"),
       Req("card_type", "String"), Opt("issuer_country", "String"),
       Opt("issuer_name", "String"), Opt("source", "String"),
       Opt("card_product", "CardProduct") >>

CardProduct == << OptKept("code", "String"), OptKept("name", "String") >>

PaymentMethod ==
    << Renamed("type", "payment_method_type", "String"), Req("id", "String"),
       Req("saved", "bool"), Opt("title", "String"), Opt("card", "CardDetails"),
       Opt("login", "String"), Opt("phone", "String"),
       Opt("sbp_operation_id", "String"),
       Opt("payer_bank_details", "PayerBankDetails") >>

PayerBankDetails == << OptKept("bic", "String"), OptKept("bank_id", "String") >>

CancellationDetails == << Req("party", "String"), Req("reason", "String") >>

ThreeDSecure == << Req("applied", "bool"), Opt("method_relevant", "bool") >>

AuthorizationDetails ==
    << Opt("rrn", "String"), Opt("auth_code", "String"),
       Opt("three_d_secure", "ThreeDSecure") >>

Payment ==
    << Req("id", "String"), Req("status", "PaymentStatus"), Req("amount", "Amount"),
       Opt("income_amount", "Amount"), Opt("description", "String"),
       Req("recipient", "Recipient"), Opt("payment_method", "PaymentMethod"),
       Opt("captured_at", "String"), Req("created_at", "String"),
       Opt("expires_at", "String"), Opt("confirmation", "ConfirmationResponse"),
       Req("test", "bool"), Req("paid", "bool"), Req("refundable", "bool"),
       Opt("refunded_amount", "Amount"), Opt("receipt_registration", "String"),
       Opt("metadata", "Value"),
       Opt("cancellation_details", "CancellationDetails"),
       Opt("authorization_details", "AuthorizationDetails") >>

\* PaymentList with its cursor read from the key nextCursor.
PaymentList_camelCase ==
    << Renamed("type", "list_type", "String"), ReqVec("items", "Payment"),
       Field("nextCursor", "next_cursor", "String", TRUE, TRUE, FALSE) >>

PaymentList ==
    << Renamed("type", "list_type", "String"), ReqVec("items", "Payment"),
       Opt("next_cursor", "String") >>

ReceiptCustomer ==
    << Opt("full_name", "String"), Opt("inn", "String"), Opt("email", "String"),
       Opt("phone", "String") >>

ReceiptItem ==
    << Req("description", "String"), Req("quantity", "String"),
       Req("amount", "Amount"), Req("vat_code", "i32"),
       Opt("payment_mode", "String"), Opt("payment_subject", "String"),
       Opt("country_of_origin_code", "String"),
       Opt("customs_declaration_number", "String"), Opt("excise", "String"),
       Opt("product_code", "String"), Opt("mark_quantity", "ReceiptMarkQuantity"),
       OptVec("payment_subject_industry_details", "PaymentSubjectIndustryDetails"),
       Opt("product_mark", "String") >>

ReceiptMarkQuantity == << Req("numerator", "i32"), Req("denominator", "i32") >>

PaymentSubjectIndustryDetails ==
    << Req("federal_id", "String"), Req("document_date", "String"),
       Req("document_number", "String"), Req("value", "String") >>

Receipt ==
    << Opt("customer", "ReceiptCustomer"), ReqVec("items", "ReceiptItem"),
       Opt("tax_system_code", "i32"),
       OptVec("receipt_industry_details", "ReceiptIndustryDetails"),
       Opt("receipt_operational_details", "ReceiptOperationalDetails") >>

ReceiptIndustryDetails ==
    << Req("federal_id", "String"), Req("document_date", "String"),
       Req("document_number", "String"), Req("value", "String") >>

ReceiptOperationalDetails ==
    << Req("operation_id", "i32"), Req("value", "String"),
       Req("created_at", "String") >>

\* The structs that derive Serialize and Deserialize, by name.
Schema ==
    [ YooKassaApiError |-> YooKassaApiError, Amount |-> Amount,
      ConfirmationRequest |-> ConfirmationRequest,
      PaymentMethodData |-> PaymentMethodData, CardData |-> CardData,
      CreatePaymentRequest |-> CreatePaymentRequest,
      CapturePaymentRequest |-> CapturePaymentRequest,
      ConfirmationResponse |-> ConfirmationResponse, Recipient |-> Recipient,
      CardDetails |-> CardDetails, CardProduct |-> CardProduct,
      PaymentMethod |-> PaymentMethod, PayerBankDetails |-> PayerBankDetails,
      CancellationDetails |-> CancellationDetails, ThreeDSecure |-> ThreeDSecure,
      AuthorizationDetails |-> AuthorizationDetails, Payment |-> Payment,
      PaymentList |-> PaymentList, ReceiptCustomer |-> ReceiptCustomer,
      ReceiptItem |-> ReceiptItem, ReceiptMarkQuantity |-> ReceiptMarkQuantity,
      PaymentSubjectIndustryDetails |-> PaymentSubjectIndustryDetails,
      Receipt |-> Receipt, ReceiptIndustryDetails |-> ReceiptIndustryDetails,
      ReceiptOperationalDetails |-> ReceiptOperationalDetails ]

\* enum PaymentStatus under rename_all = "snake_case": the names on the wire.
PaymentStatus == {"pending", "waiting_for_capture", "succeeded", "canceled"}

(***************************************************************************)
(* Deserialize, as serde derives it and serde_json drives it. A struct is  *)
(* read from an object (unknown keys ignored, an absent Option is None, an *)
(* absent required field is an error) or from an array of its fields in    *)
(* declaration order. The result is Ok(value) or Fail(serde's complaint).  *)
(***************************************************************************)
Min(S) == CHOOSE i \in S : \A k \in S : i <= k

\* A unit-variant enum: its name as a string, or the object {name: null}.
de_PaymentStatus_default(j) ==
    IF j.t = "string"
    THEN IF j.s \in PaymentStatus THEN Ok(j.s) ELSE Ok("pending")
    ELSE Fail("invalid type")

de_PaymentStatus(j) ==
    IF j.t = "string"
    THEN IF j.s \in PaymentStatus THEN Ok(j.s) ELSE Fail("unknown variant")
    ELSE IF j.t = "object" /\ Cardinality(DOMAIN j.o) = 1
         THEN LET k == CHOOSE k \in DOMAIN j.o : TRUE
              IN  IF k \notin PaymentStatus THEN Fail("unknown variant")
                  ELSE IF j.o[k].t = "null" THEN Ok(k) ELSE Fail("invalid type")
         ELSE Fail("invalid type")

RECURSIVE Decode(_, _), DecodeField(_, _), DecodeVec(_, _), DecodeStruct(_, _)

Decode(ty, j) ==
    CASE ty = "String" -> IF j.t = "string" THEN Ok(j.s) ELSE Fail("invalid type")
      [] ty = "bool" -> IF j.t = "bool" THEN Ok(j.b) ELSE Fail("invalid type")
      [] ty = "i32" -> IF j.t = "number" THEN Ok(j.n) ELSE Fail("invalid type")
      [] ty = "Value" -> Ok(j)
      [] ty = "PaymentStatus" -> de_PaymentStatus(j)
      [] OTHER -> DecodeStruct(ty, j)

DecodeVec(ty, j) ==
    IF j.t /= "array" THEN Fail("invalid type")
    ELSE LET r == [i \in 1..Len(j.a) |-> Decode(ty, j.a[i])]
             bad == {i \in 1..Len(j.a) : ~r[i].ok}
         IN  IF bad = {} THEN Ok([i \in 1..Len(j.a) |-> r[i].v]) ELSE r[Min(bad)]

DecodeField(f, j) ==
    IF f.opt /\ j.t = "null" THEN Ok(None)
    ELSE LET r == IF f.vec THEN DecodeVec(f.ty, j) ELSE Decode(f.ty, j)
         IN  IF f.opt /\ r.ok THEN Ok(Some(r.v)) ELSE r

DecodeStruct(ty, j) ==
    LET F == Schema[ty]
        I == 1..Len(F)
        value(r) == [n \in {F[i].name : i \in I} |-> r[CHOOSE i \in I : F[i].name = n].v]
    IN  IF j.t = "object"
        THEN LET r == [i \in I |->
                        IF F[i].key \in DOMAIN j.o THEN DecodeField(F[i], j.o[F[i].key])
                        ELSE IF F[i].opt THEN Ok(None) ELSE Fail("missing field")]
                 bad == {i \in I : ~r[i].ok}
                 badPresent == {i \in bad : F[i].key \in DOMAIN j.o}
             IN  IF bad = {} THEN Ok(value(r))
                 ELSE IF badPresent /= {} THEN r[Min(badPresent)]
                 ELSE Fail("missing field")
        ELSE IF j.t = "array"
        THEN LET r == [i \in I |->
                        IF i <= Len(j.a) THEN DecodeField(F[i], j.a[i])
                        ELSE Fail("invalid length")]
                 bad == {i \in I : ~r[i].ok}
             IN  IF bad /= {} THEN r[Min(bad)]
                 ELSE IF Len(j.a) > Len(F) THEN Fail("trailing characters")
                 ELSE Ok(value(r))
        ELSE Fail("invalid type")

\* serde_json::from_str::<ty>: text that is not JSON is a syntax error.
from_str(ty, text) ==
    IF text.kind = "json" THEN Decode(ty, text.doc) ELSE Fail("syntax")

(***************************************************************************)
(* Serialize, as serde derives it: every field under its key, except an    *)
(* Option that is None and carries skip_serializing_if = Option::is_none.  *)
(***************************************************************************)
RECURSIVE Encode(_, _), EncodeField(_, _)

Encode(ty, v) ==
    CASE ty = "String" -> Str(v)
      [] ty = "bool" -> Bool(v)
      [] ty = "i32" -> Num(v)
      [] ty = "Value" -> v
      [] ty = "PaymentStatus" -> Str(v)
      [] OTHER ->
           LET F == Schema[ty]
               I == 1..Len(F)
               kept == {i \in I : ~(F[i].opt /\ F[i].skip /\ ~v[F[i].name].some)}
           IN  Obj([k \in {F[i].key : i \in kept} |->
                     LET i == CHOOSE i \in kept : F[i].key = k
                     IN  EncodeField(F[i], v[F[i].name])])

EncodeField(f, x) ==
    LET inner(y) == IF f.vec THEN Arr([i \in 1..Len(y) |-> Encode(f.ty, y[i])])
                    ELSE Encode(f.ty, y)
    IN  IF f.opt THEN (IF x.some THEN inner(x.v) ELSE Null) ELSE inner(x)

(***************************************************************************)
(* The client                                                              *)
(***************************************************************************)
VARIABLES
    client,   \* YooKassaClient: shop_id, secret_key, base_url
    rng,      \* how many values the random generator behind Uuid::new_v4 has given
    calls     \* the calls made so far, in the order their requests were dispatched

vars == <<client, rng, calls>>

YOOKASSA_API_BASE_URL == "https://api.yookassa.ru/v3/"
IDEMPOTENCE_KEY_HEADER == "Idempotence-Key"
BODY_READ_PLACEHOLDER == PlainText("Ne udalos' prochitat' telo otveta")

new(shop_id, secret_key) ==
    [shop_id |-> shop_id, secret_key |-> secret_key, base_url |-> YOOKASSA_API_BASE_URL]

\* Uuid::new_v4().to_string(): 122 random bits. The r-th value of the generator;
\* successive values are taken to differ (the chance of a collision is not modelled).
Uuid_nil(r) == "uuid-0"

Uuid_new_v4(r) == "uuid-" \o ToString(r + 1)

\* RequestBuilder::basic_auth: the Authorization header for username:password
\* (the base64 encoding of the pair, which is one-to-one, is left out).
basic_auth_no_password(username, password) == "Basic " \o username \o ":"

basic_auth(username, password) ==
    "Basic " \o username \o ":" \o (IF password.some THEN password.v ELSE "")

\* send_request with its HeaderMap kept in the client and reused by the next
\* call: the key header of an earlier call is still in it.
send_request_shared_headers(self, r, method, endpoint, T, body, idempotency_key_required) ==
    LET url == self.base_url \o endpoint
        headers == ("Content-Type" :> "application/json")
                   @@ ("Accept" :> "application/json")
                   @@ (IF idempotency_key_required
                       THEN IDEMPOTENCE_KEY_HEADER :> Uuid_new_v4(r)
                       ELSE IF r > 0
                       THEN IDEMPOTENCE_KEY_HEADER :> Uuid_new_v4(r - 1)
                       ELSE <<>>)
    IN  [ request |->
            [ method |-> method,
              url |-> url,
              query |-> <<>>,
              headers |-> ("Authorization" :> basic_auth(self.shop_id, Some(self.secret_key)))
                          @@ headers,
              body |-> IF body.some THEN Some(Encode(T, body.v)) ELSE None ],
          rng |-> IF idempotency_key_required THEN r + 1 ELSE r ]

\* send_request::<T>, up to the await of send(): the request it dispatches and
\* the generator after it.
send_request(self, r, method, endpoint, T, body, idempotency_key_required) ==
    LET url == self.base_url \o endpoint
        headers == ("Content-Type" :> "application/json")
                   @@ ("Accept" :> "application/json")
                   @@ (IF idempotency_key_required
                       THEN IDEMPOTENCE_KEY_HEADER :> Uuid_new_v4(r)
                       ELSE <<>>)
    IN  [ request |->
            [ method |-> method,
              url |-> url,
              query |-> <<>>,
              headers |-> ("Authorization" :> basic_auth(self.shop_id, Some(self.secret_key)))
                          @@ headers,
              body |-> IF body.some THEN Some(Encode(T, body.v)) ELSE None ],
          rng |-> IF idempotency_key_required THEN r + 1 ELSE r ]

create_payment(self, r, request) ==
    send_request(self, r, "POST", "payments", "CreatePaymentRequest", Some(request), TRUE)

get_payment_keyed(self, r, payment_id) ==
    send_request(self, r, "GET", "payments/" \o payment_id, "()", None, TRUE)

get_payment(self, r, payment_id) ==
    send_request(self, r, "GET", "payments/" \o payment_id, "()", None, FALSE)

CapturePaymentRequest_default == [amount |-> None, receipt |-> None]

capture_payment_as_given(self, r, payment_id, request) ==
    send_request(self, r, "POST", "payments/" \o payment_id \o "/capture",
                 "CapturePaymentRequest", request, TRUE)

capture_payment(self, r, payment_id, request) ==
    LET default_body == CapturePaymentRequest_default
        body_to_send == IF request.some THEN request.v ELSE default_body
    IN  send_request(self, r, "POST", "payments/" \o payment_id \o "/capture",
                     "CapturePaymentRequest", Some(body_to_send), TRUE)

cancel_payment(self, r, payment_id) ==
    LET empty_body == EmptyObject
    IN  send_request(self, r, "POST", "payments/" \o payment_id \o "/cancel",
                     "Value", Some(empty_body), TRUE)

\* list_payments without its `if let Some(query_params)`.
list_payments_no_query(self, r, params) ==
    [ request |->
        [ method |-> "GET",
          url |-> self.base_url \o "payments",
          query |-> <<>>,
          headers |-> ("Authorization" :> basic_auth(self.shop_id, Some(self.secret_key)))
                      @@ ("Accept" :> "application/json"),
          body |-> None ],
      rng |-> r ]

\* list_payments builds its request itself, without send_request. The query is
\* kept as the pairs RequestBuilder::query writes into the URL (their
\* percent-encoding, which is one-to-one, is left out); no pairs, no query.
list_payments(self, r, params) ==
    [ request |->
        [ method |-> "GET",
          url |-> self.base_url \o "payments",
          query |-> IF params.some THEN params.v ELSE <<>>,
          headers |-> ("Authorization" :> basic_auth(self.shop_id, Some(self.secret_key)))
                      @@ ("Accept" :> "application/json"),
          body |-> None ],
      rng |-> r ]

(***************************************************************************)
(* Results: Ok(value) or one variant of YooKassaError.                     *)
(***************************************************************************)
OkResult(v) == [variant |-> "Ok", value |-> v]
\* YooKassaError::Reqwest, with the kind of the reqwest::Error it wraps and,
\* for a decode error, serde_json's complaint.
Reqwest(kind, cause) == [variant |-> "Reqwest", kind |-> kind, cause |-> cause]
Serde(cause) == [variant |-> "Serde", cause |-> cause]
ApiError(status, message, error_details) ==
    [variant |-> "ApiError", status |-> status, message |-> message,
     error_details |-> error_details]

\* StatusCode::is_success
is_success_only_200(status) == status = 200

is_success(status) == 200 <= status /\ status < 300

\* Response::json::<R>: read the whole body, then serde_json::from_slice.
json(R, response) ==
    IF response.body.kind = "read_error" THEN Fail("body")
    ELSE from_str(R, response.body)

\* The error body read with `?` in place of unwrap_or_else.
process_response_propagate(R, response) ==
    LET status == response.status
    IN  IF is_success(status)
        THEN LET decoded == json(R, response)
             IN  IF decoded.ok THEN OkResult(decoded.v)
                 ELSE IF decoded.err = "body" THEN Reqwest("body", "")
                 ELSE Reqwest("decode", decoded.err)
        ELSE IF response.body.kind = "read_error" THEN Reqwest("body", "")
        ELSE LET body_text == response.body
                 api_error_details == from_str("YooKassaApiError", body_text)
             IN  ApiError(status, body_text,
                          IF api_error_details.ok THEN Some(api_error_details.v) ELSE None)

\* The error body parsed with `?` in place of `.ok()`.
process_response_strict(R, response) ==
    LET status == response.status
        body_text == IF response.body.kind = "read_error"
                     THEN BODY_READ_PLACEHOLDER
                     ELSE response.body
        api_error_details == from_str("YooKassaApiError", body_text)
    IN  IF is_success(status)
        THEN LET decoded == json(R, response)
             IN  IF decoded.ok THEN OkResult(decoded.v)
                 ELSE IF decoded.err = "body" THEN Reqwest("body", "")
                 ELSE Reqwest("decode", decoded.err)
        ELSE IF api_error_details.ok
        THEN ApiError(status, body_text, Some(api_error_details.v))
        ELSE Serde(api_error_details.err)

process_response(R, response) ==
    LET status == response.status
    IN  IF is_success(status)
        THEN LET decoded == json(R, response)
             IN  IF decoded.ok THEN OkResult(decoded.v)
                 ELSE IF decoded.err = "body" THEN Reqwest("body", "")
                 ELSE Reqwest("decode", decoded.err)
        ELSE LET body_text == IF response.body.kind = "read_error"
                              THEN BODY_READ_PLACEHOLDER
                              ELSE response.body
                 api_error_details == from_str("YooKassaApiError", body_text)
             IN  ApiError(status, body_text,
                          IF api_error_details.ok THEN Some(api_error_details.v) ELSE None)

\* The R each operation asks process_response for.
ResultType(op) == IF op = "list_payments" THEN "PaymentList" ELSE "Payment"

(***************************************************************************)
(* The inputs: the credentials and arguments callers pass, and the         *)
(* responses the gateway may give.                                         *)
(***************************************************************************)
ShopIds == {"shop-1", "shop-2"}
SecretKeys == {"test_secret"}
BaseUrls == {"http://localhost:8080/"}
PaymentIds == {"p1"}

RUB(value) == [value |-> value, currency |-> "RUB"]

\* A CreatePaymentRequest for an amount, every optional field unset.
CreateRequest(amount) ==
    [ amount |-> amount, description |-> None, payment_method_data |-> None,
      confirmation |-> None, capture |-> None, save_payment_method |-> None,
      metadata |-> None, receipt |-> None, payment_token |-> None,
      payment_method_id |-> None, client_ip |-> None ]

CreateRequests ==
    { CreateRequest(RUB("10.00")),
      [CreateRequest(RUB("10.00")) EXCEPT
          !.description = Some("order 123"), !.capture = Some(TRUE),
          !.confirmation = Some([confirmation_type |-> "redirect",
                                 return_url |-> "https://www.example.com/return_url",
                                 enforce |-> None, locale |-> Some("ru_RU")])] }

CaptureRequests ==
    { None, Some(CapturePaymentRequest_default),
      Some([amount |-> Some(RUB("5.00")), receipt |-> None]) }

ListParams == { None, Some(<<>>), Some(<< <<"limit", "10">>, <<"status", "succeeded">> >>) }

With(doc, k, v) == Obj((k :> v) @@ doc.o)
Without(doc, k) == Obj([x \in DOMAIN doc.o \ {k} |-> doc.o[x]])

PaymentDoc ==
    Obj([ id |-> Str("p1"), status |-> Str("pending"),
          amount |-> Obj([value |-> Str("10.00"), currency |-> Str("RUB")]),
          recipient |-> Obj([account_id |-> Str("100500"), gateway_id |-> Str("100700")]),
          created_at |-> Str("2026-01-01T10:00:00.000Z"),
          test |-> Bool(TRUE), paid |-> Bool(FALSE), refundable |-> Bool(FALSE) ])

\* The keys of the Payment fields that are not Options.
PaymentRequired ==
    {"id", "status", "amount", "recipient", "created_at", "test", "paid", "refundable"}

PaymentDocs ==
    {PaymentDoc}
    \cup {With(PaymentDoc, "status", Str(s)) :
            s \in PaymentStatus \cup {"refunded", "Pending", ""}}
    \cup {Without(PaymentDoc, k) : k \in PaymentRequired}
    \cup { With(PaymentDoc, "status", Null),
           With(PaymentDoc, "status", Bool(TRUE)),
           With(PaymentDoc, "status", Obj("succeeded" :> Null)),
           With(PaymentDoc, "description", Null),
           With(PaymentDoc, "description", Str("order 123")),
           With(PaymentDoc, "description", Num(123)),
           With(PaymentDoc, "merchant_customer_id", Str("c1")),
           With(With(PaymentDoc, "status", Str("canceled")), "cancellation_details",
                Obj([party |-> Str("merchant"), reason |-> Str("canceled_by_merchant")])) }

ApiErrorDoc ==
    Obj([ type |-> Str("error"), id |-> Str("ab5a11cd"), code |-> Str("invalid_request"),
          description |-> Str("Idempotence key duplicated"),
          parameter |-> Str("Idempotence-Key") ])

\* The keys of the YooKassaApiError fields that are not Options.
ApiErrorRequired == {"type", "id", "code", "description"}

ApiErrorDocs ==
    {ApiErrorDoc, Without(ApiErrorDoc, "parameter"), With(ApiErrorDoc, "parameter", Null),
     With(ApiErrorDoc, "parameter", Num(7)), With(ApiErrorDoc, "code", Num(402)),
     With(ApiErrorDoc, "retry_after", Num(1800))}
    \cup {Without(ApiErrorDoc, k) : k \in ApiErrorRequired}
    \cup { Arr(<<Str("error"), Str("ab5a11cd"), Str("invalid_request"), Str("bad"), Null>>),
           Arr(<<Str("error"), Str("ab5a11cd"), Str("invalid_request"), Str("bad")>>) }

PaymentListDoc(items, cursor) ==
    LET page == Obj([type |-> Str("list"), items |-> Arr(items)])
    IN  IF cursor.some THEN With(page, "next_cursor", Str(cursor.v)) ELSE page

PaymentListDocs ==
    { PaymentListDoc(items, cursor) :
        items \in {<<>>, <<PaymentDoc>>, <<PaymentDoc, Without(PaymentDoc, "status")>>},
        cursor \in {None, Some("37a5c87d")} }
    \cup { With(PaymentListDoc(<<>>, None), "next_cursor", Null),
           Without(PaymentListDoc(<<PaymentDoc>>, None), "items") }

Bodies ==
    { [kind |-> "read_error"], PlainText(""),
      PlainText("<html><body>502 Bad Gateway</body></html>"),
      PlainText("{\"type\": \"error\", \"id\": \"ab5"),
      JsonText(EmptyObject), JsonText(Null), JsonText(Str("error")) }
    \cup {JsonText(d) : d \in PaymentDocs \cup ApiErrorDocs \cup PaymentListDocs}

Statuses == {199, 200, 204, 299, 300, 402, 500}

\* Every response the classifier is tried on.
Responses == [status : Statuses, body : Bodies]

\* The responses given to overlapping calls.
FewResponses ==
    { [status |-> 200, body |-> JsonText(PaymentDoc)],
      [status |-> 402, body |-> JsonText(ApiErrorDoc)] }

\* How send() fails: the kinds of reqwest::Error of the transport.
TransportErrors == {"connect", "timeout"}

\* The transport failure given to overlapping calls.
FewTransportErrors == {"timeout"}

(***************************************************************************)
(* The steps                                                               *)
(***************************************************************************)
Init ==
    /\ client \in {new(s, k) : s \in ShopIds, k \in SecretKeys}
    /\ rng = 0
    /\ calls = <<>>

InFlight == {c \in 1..Len(calls) : calls[c].pc /= "done"}

\* set_base_url takes the client by value: no call is borrowing it.
SetBaseUrl(base_url) ==
    /\ InFlight = {}
    /\ client' = [client EXCEPT !.base_url = base_url]
    /\ UNCHANGED <<rng, calls>>

\* An operation, from its call to the await of send(). A call counts the
\* requests it has sent and the runs of process_response on its behalf.
Dispatch(limit, op, args, sent) ==
    /\ Len(calls) < limit
    /\ calls' = Append(calls, [ op |-> op, args |-> args, request |-> sent.request,
                                pc |-> "send", response |-> None, result |-> None,
                                sends |-> 1, classified |-> 0 ])
    /\ rng' = sent.rng
    /\ UNCHANGED client

CreatePayment(limit) ==
    \E request \in CreateRequests :
        Dispatch(limit, "create_payment", [request |-> request],
                 create_payment(client, rng, request))

GetPayment(limit) ==
    \E payment_id \in PaymentIds :
        Dispatch(limit, "get_payment", [payment_id |-> payment_id],
                 get_payment(client, rng, payment_id))

CapturePayment(limit) ==
    \E payment_id \in PaymentIds, request \in CaptureRequests :
        Dispatch(limit, "capture_payment", [payment_id |-> payment_id, request |-> request],
                 capture_payment(client, rng, payment_id, request))

CancelPayment(limit) ==
    \E payment_id \in PaymentIds :
        Dispatch(limit, "cancel_payment", [payment_id |-> payment_id],
                 cancel_payment(client, rng, payment_id))

ListPayments(limit) ==
    \E params \in ListParams :
        Dispatch(limit, "list_payments", [params |-> params],
                 list_payments(client, rng, params))

\* A transport error answered by sending the request once more.
SendErr_retry(c, kinds) ==
    /\ calls[c].pc = "send"
    /\ \E kind \in kinds :
          calls' = IF calls[c].sends < 2
                   THEN [calls EXCEPT ![c].sends = @ + 1]
                   ELSE [calls EXCEPT ![c].pc = "done",
                                      ![c].result = Some(Reqwest(kind, ""))]
    /\ UNCHANGED <<client, rng>>

\* send().await? returns a transport error: the operation returns it.
SendErr(c, kinds) ==
    /\ calls[c].pc = "send"
    /\ \E kind \in kinds :
          calls' = [calls EXCEPT ![c].pc = "done", ![c].result = Some(Reqwest(kind, ""))]
    /\ UNCHANGED <<client, rng>>

\* send().await? returns a response.
SendOk(c, responses) ==
    /\ calls[c].pc = "send"
    /\ \E response \in responses :
          calls' = [calls EXCEPT ![c].pc = "process", ![c].response = Some(response)]
    /\ UNCHANGED <<client, rng>>

\* self.process_response(response).await
ProcessResponse(c) ==
    /\ calls[c].pc = "process"
    /\ calls' = [calls EXCEPT
                   ![c].pc = "done",
                   ![c].classified = @ + 1,
                   ![c].result = Some(process_response(ResultType(calls[c].op),
                                                       calls[c].response.v))]
    /\ UNCHANGED <<client, rng>>

\* Overlapping calls on one shared client.
Next ==
    \/ \E base_url \in BaseUrls : SetBaseUrl(base_url)
    \/ CreatePayment(MaxCalls)
    \/ GetPayment(MaxCalls)
    \/ CapturePayment(MaxCalls)
    \/ CancelPayment(MaxCalls)
    \/ ListPayments(MaxCalls)
    \/ \E c \in 1..Len(calls) : SendErr(c, FewTransportErrors)
    \/ \E c \in 1..Len(calls) : SendOk(c, FewResponses)
    \/ \E c \in 1..Len(calls) : ProcessResponse(c)

Spec == Init /\ [][Next]_vars

\* One call, on every response.
NextClassify ==
    \/ \E base_url \in BaseUrls : SetBaseUrl(base_url)
    \/ CreatePayment(1)
    \/ GetPayment(1)
    \/ CapturePayment(1)
    \/ CancelPayment(1)
    \/ ListPayments(1)
    \/ \E c \in 1..Len(calls) : SendErr(c, TransportErrors)
    \/ \E c \in 1..Len(calls) : SendOk(c, Responses)
    \/ \E c \in 1..Len(calls) : ProcessResponse(c)

SpecClassify == Init /\ [][NextClassify]_vars

\* The optional fields of CreatePaymentRequest.
OptionalFields ==
    {"description", "payment_method_data", "confirmation", "capture",
     "save_payment_method", "metadata", "receipt", "payment_token",
     "payment_method_id", "client_ip"}

\* A value for each optional field of CreatePaymentRequest.
Sample ==
    [ description |-> "order 123",
      payment_method_data |->
        [ payment_method_type |-> "bank_card",
          card |-> Some([ number |-> "5555555555554444", expiry_year |-> "2030",
                          expiry_month |-> "07", csc |-> Some("123"),
                          cardholder |-> None ]),
          login |-> None, phone |-> Some("79000000000") ],
      confirmation |->
        [ confirmation_type |-> "redirect",
          return_url |-> "https://www.example.com/return_url",
          enforce |-> Some(FALSE), locale |-> None ],
      capture |-> TRUE,
      save_payment_method |-> FALSE,
      metadata |-> Obj([order_id |-> Str("123xyz"), note |-> Null]),
      receipt |->
        [ customer |-> Some([ full_name |-> None, inn |-> None,
                              email |-> Some("payer@example.com"), phone |-> None ]),
          items |-> << [ description |-> "item", quantity |-> "1.00",
                         amount |-> RUB("10.00"), vat_code |-> 1,
                         payment_mode |-> Some("full_payment"),
                         payment_subject |-> None, country_of_origin_code |-> None,
                         customs_declaration_number |-> None, excise |-> None,
                         product_code |-> None,
                         mark_quantity |-> Some([numerator |-> 1, denominator |-> 2]),
                         payment_subject_industry_details |->
                           Some(<< [ federal_id |-> "001", document_date |-> "2026-01-01",
                                     document_number |-> "123", value |-> "v" ] >>),
                         product_mark |-> None ] >>,
          tax_system_code |-> Some(1),
          receipt_industry_details |-> Some(<<>>),
          receipt_operational_details |->
            Some([ operation_id |-> 255, value |-> "v",
                   created_at |-> "2026-01-01T10:00:00.000Z" ]) ],
      payment_token |-> "pt-1",
      payment_method_id |-> "pm-1",
      client_ip |-> "192.0.2.1" ]

\* The CreatePaymentRequest with the optional fields of S set.
RequestWith(S) ==
    [k \in OptionalFields \cup {"amount"} |->
        IF k = "amount" THEN RUB("10.00")
        ELSE IF k \in S THEN Some(Sample[k]) ELSE None]

\* The requests of the round trip: every choice of optional fields, and the
\* JSON values a caller may give as metadata.
RoundTripRequests ==
    {RequestWith(S) : S \in SUBSET OptionalFields}
    \cup {[RequestWith(S) EXCEPT !.metadata = Some(m)] :
            S \in {{}, OptionalFields},
            m \in {Null, EmptyObject, Str("order 123"), Num(123), Arr(<<Null>>)}}

\* create_payment on the requests of the round trip.
CreatePaymentRoundTrip ==
    \E request \in RoundTripRequests :
        Dispatch(1, "create_payment", [request |-> request],
                 create_payment(client, rng, request))

\* One create_payment, on every request of the round trip.
NextRoundTrip ==
    \/ \E base_url \in BaseUrls : SetBaseUrl(base_url)
    \/ CreatePaymentRoundTrip
    \/ \E c \in 1..Len(calls) : SendErr(c, FewTransportErrors)
    \/ \E c \in 1..Len(calls) : SendOk(c, FewResponses)
    \/ \E c \in 1..Len(calls) : ProcessResponse(c)

SpecRoundTrip == Init /\ [][NextRoundTrip]_vars

(***************************************************************************)
(* The properties                                                          *)
(***************************************************************************)
Calls == 1..Len(calls)
Done == {c \in Calls : calls[c].pc = "done" /\ calls[c].response.some}
Headers(c) == calls[c].request.headers
HasKey(c) == IDEMPOTENCE_KEY_HEADER \in DOMAIN Headers(c)
Mutating == {"create_payment", "capture_payment", "cancel_payment"}
Is2xx(status) == status \in 200..299

\* C1: a request carries the idempotency-key header exactly when its operation
\* is create_payment, capture_payment or cancel_payment; get_payment and
\* list_payments never send it.
C1_KeyExactlyOnMutating ==
    \A c \in Calls : HasKey(c) <=> calls[c].op \in Mutating

C1_Witness ==
    \E c, d \in Calls :
        /\ calls[c].op = "capture_payment" /\ HasKey(c)
        /\ calls[d].op = "get_payment" /\ ~HasKey(d)

\* C2: any two calls of the mutating operations, also two calls of the same
\* operation with the same arguments, send distinct idempotency keys; no key is
\* used again by a later call.
C2_KeysDistinct ==
    \A c, d \in Calls :
        (c /= d /\ HasKey(c) /\ HasKey(d))
            => Headers(c)[IDEMPOTENCE_KEY_HEADER] /= Headers(d)[IDEMPOTENCE_KEY_HEADER]

C2_Witness ==
    \E c, d \in Calls :
        /\ c < d
        /\ calls[c].op = "cancel_payment" /\ calls[d].op = "cancel_payment"
        /\ calls[c].args = calls[d].args
        /\ calls[c].pc = "done"
        /\ Headers(c)[IDEMPOTENCE_KEY_HEADER] /= Headers(d)[IDEMPOTENCE_KEY_HEADER]

\* C3: every request of the five operations carries Content-Type:
\* application/json and Accept: application/json.
C3_JsonHeadersOnEveryRequest ==
    \A c \in Calls :
        /\ "Content-Type" \in DOMAIN Headers(c)
        /\ Headers(c)["Content-Type"] = "application/json"
        /\ "Accept" \in DOMAIN Headers(c)
        /\ Headers(c)["Accept"] = "application/json"

\* C4: every request carries HTTP basic authentication made of the shop
\* identifier and the secret key of the client.
C4_BasicAuthOnEveryRequest ==
    \A c \in Calls :
        /\ "Authorization" \in DOMAIN Headers(c)
        /\ Headers(c)["Authorization"]
             = "Basic " \o client.shop_id \o ":" \o client.secret_key

C4_Witness ==
    \E c, d \in Calls :
        /\ client.shop_id = "shop-2"
        /\ calls[c].op = "list_payments" /\ calls[d].op = "create_payment"
        /\ Headers(c)["Authorization"] = "Basic shop-2:test_secret"
        /\ Headers(d)["Authorization"] = "Basic shop-2:test_secret"

\* C5: process_response decides by the status alone: a 2xx response never gives
\* an ApiError, whatever its body, and a response of any other status always
\* gives an ApiError, also when its body is a well-formed Payment.
C5_StatusAloneDecides ==
    \A c \in Done :
        LET status == calls[c].response.v.status
            variant == calls[c].result.v.variant
        IN  /\ Is2xx(status) => variant \in {"Ok", "Reqwest"}
            /\ ~Is2xx(status) => variant = "ApiError"

C5_Witness ==
    \E c \in Done :
        /\ calls[c].response.v = [status |-> 299, body |-> JsonText(ApiErrorDoc)]
        /\ calls[c].result.v.variant /= "ApiError"

\* The body is the structured error {type, id, code, description, parameter?}:
\* an object with these four keys as strings and parameter absent, null or a
\* string, or serde's positional form of it, the array of the five values.
ErrorShape(body) ==
    /\ body.kind = "json"
    /\ \/ /\ body.doc.t = "object"
          /\ \A k \in ApiErrorRequired :
                k \in DOMAIN body.doc.o /\ body.doc.o[k].t = "string"
          /\ "parameter" \in DOMAIN body.doc.o
                => body.doc.o["parameter"].t \in {"string", "null"}
       \/ /\ body.doc.t = "array"
          /\ Len(body.doc.a) = 5
          /\ \A i \in 1..4 : body.doc.a[i].t = "string"
          /\ body.doc.a[5].t \in {"string", "null"}

\* C6: a non-2xx response whose body was read gives an ApiError with the
\* status of the response and the raw body as its message; error_details is
\* there exactly when the body parses as the structured error, and an
\* unparsable body never makes the call fail in another way.
C6_ApiErrorKeepsStatusAndBody ==
    \A c \in Done :
        LET response == calls[c].response.v
            result == calls[c].result.v
        IN  (~Is2xx(response.status) /\ response.body.kind /= "read_error")
                => /\ result.variant = "ApiError"
                   /\ result.status = response.status
                   /\ result.message = response.body
                   /\ result.error_details.some <=> ErrorShape(response.body)

C6_Witness ==
    \E c \in Done :
        /\ calls[c].response.v.status = 402
        /\ calls[c].response.v.body = PlainText("{\"type\": \"error\", \"id\": \"ab5")
        /\ calls[c].result.v = ApiError(402, calls[c].response.v.body, None)

\* A 2xx response whose body was read and does not decode into the type asked for.
Undecodable(c) ==
    /\ Is2xx(calls[c].response.v.status)
    /\ calls[c].response.v.body.kind /= "read_error"
    /\ ~from_str(ResultType(calls[c].op), calls[c].response.v.body).ok

\* C7: a 2xx response whose body cannot be decoded gives a serialization
\* error, a kind apart from the API error and from the network error.
C7_DecodeFailureIsSerializationError ==
    \A c \in Done : Undecodable(c) => calls[c].result.v.variant = "Serde"

\* C8: a 200 response whose body lacks a required Payment field gives a
\* missing-field error, never a Payment with a default in its place.
C8_MissingFieldError ==
    \A c \in Done :
        LET response == calls[c].response.v
        IN  ( /\ response.status = 200
              /\ ResultType(calls[c].op) = "Payment"
              /\ response.body.kind = "json"
              /\ response.body.doc.t = "object"
              /\ PaymentRequired \ DOMAIN response.body.doc.o /= {} )
                => calls[c].result.v.variant = "MissingField"

\* The JSON of a caller's CapturePaymentRequest: a key for each field that is set.
CaptureJson(request) ==
    Obj([k \in {k \in {"amount", "receipt"} : request[k].some} |->
           Obj([value |-> Str(request[k].v.value),
                currency |-> Str(request[k].v.currency)])])

\* C9: capture_payment sends the caller's CapturePaymentRequest when one is
\* given and the empty object {} otherwise, cancel_payment always sends {};
\* neither sends a request without a body.
C9_CaptureAndCancelSendABody ==
    \A c \in Calls :
        LET body == calls[c].request.body
        IN  /\ calls[c].op = "capture_payment"
                => /\ body.some
                   /\ body.v.t = "object"
                   /\ body.v = IF calls[c].args.request.some
                               THEN CaptureJson(calls[c].args.request.v)
                               ELSE EmptyObject
            /\ calls[c].op = "cancel_payment" => body = Some(EmptyObject)

C9_Witness ==
    \E c, d \in Calls :
        /\ calls[c].op = "capture_payment"
        /\ calls[c].args.request = None
        /\ calls[c].request.body = Some(EmptyObject)
        /\ calls[d].op = "cancel_payment"
        /\ calls[d].request.body = Some(EmptyObject)

\* C10: the status of a Payment is one of pending, waiting_for_capture,
\* succeeded, canceled: a 2xx payment body with any other string as its status
\* fails to decode, and no Payment is returned with another status than the
\* one on the wire.
C10_StatusIsClosed ==
    \A c \in Done :
        LET response == calls[c].response.v
            result == calls[c].result.v
            wire == response.body.doc.o["status"]
        IN  ( /\ Is2xx(response.status)
              /\ ResultType(calls[c].op) = "Payment"
              /\ response.body.kind = "json"
              /\ response.body.doc.t = "object"
              /\ "status" \in DOMAIN response.body.doc.o
              /\ wire.t = "string" )
                => IF wire.s \in {"pending", "waiting_for_capture", "succeeded", "canceled"}
                   THEN result.variant = "Ok" => result.value.status = wire.s
                   ELSE result.variant \notin {"Ok"}

C10_Witness ==
    \E c \in Done :
        /\ calls[c].response.v
             = [status |-> 200, body |-> JsonText(With(PaymentDoc, "status", Str("refunded")))]
        /\ calls[c].result.v = Reqwest("decode", "unknown variant")

\* The method and the path of each operation in the table of the wire protocol.
WireMethod(op) == IF op \in {"get_payment", "list_payments"} THEN "GET" ELSE "POST"
WirePath(op, args) ==
    CASE op = "create_payment" -> "payments"
      [] op = "get_payment" -> "payments/" \o args.payment_id
      [] op = "capture_payment" -> "payments/" \o args.payment_id \o "/capture"
      [] op = "cancel_payment" -> "payments/" \o args.payment_id \o "/cancel"
      [] op = "list_payments" -> "payments"

\* C11: the request an operation dispatches has the method of its row and the
\* client's base URL followed by the path of its row as its URL; list_payments
\* sends exactly the caller's pairs as the query, none when no filters are
\* given, and no body; the other operations send no query.
C11_WireTable ==
    [][ Len(calls') = Len(calls) + 1 =>
          LET call == calls'[Len(calls')]
          IN  /\ call.request.method = WireMethod(call.op)
              /\ call.request.url = client.base_url \o WirePath(call.op, call.args)
              /\ call.request.query
                   = IF call.op = "list_payments" /\ call.args.params.some
                     THEN call.args.params.v
                     ELSE <<>>
              /\ call.op = "list_payments" => call.request.body = None ]_vars

C11_Witness ==
    \E c, d \in Calls :
        /\ client.base_url = "http://localhost:8080/"
        /\ calls[c].op = "list_payments"
        /\ calls[c].args.params = Some(<< <<"limit", "10">>, <<"status", "succeeded">> >>)
        /\ calls[c].request.url = "http://localhost:8080/payments"
        /\ calls[c].request.query = << <<"limit", "10">>, <<"status", "succeeded">> >>
        /\ calls[d].op = "capture_payment"
        /\ calls[d].request.url = "http://localhost:8080/payments/p1/capture"

\* C12: a successful list_payments returns the gateway's cursor unchanged:
\* next_cursor holds the token of the response when it carries one and is None
\* otherwise, whether or not items is empty, and the items are as many as sent.
C12_CursorExposed ==
    \A c \in Done :
        LET response == calls[c].response.v
            result == calls[c].result.v
            page == response.body.doc.o
        IN  ( /\ calls[c].op = "list_payments"
              /\ result.variant = "Ok"
              /\ response.body.doc.t = "object" )
                => /\ result.value.next_cursor
                        = IF "next_cursor" \in DOMAIN page /\ page["next_cursor"].t = "string"
                          THEN Some(page["next_cursor"].s)
                          ELSE None
                   /\ Len(result.value.items) = Len(page["items"].a)

C12_Witness ==
    \E c \in Done :
        /\ calls[c].op = "list_payments"
        /\ calls[c].response.v
             = [status |-> 200, body |-> JsonText(PaymentListDoc(<<>>, Some("37a5c87d")))]
        /\ calls[c].result.v.variant = "Ok"
        /\ calls[c].result.v.value.items = <<>>
        /\ calls[c].result.v.value.next_cursor = Some("37a5c87d")

\* The other page of C12: items and no cursor, the final page.
C12_FinalPage ==
    \E c \in Done :
        /\ calls[c].op = "list_payments"
        /\ calls[c].response.v
             = [status |-> 200, body |-> JsonText(PaymentListDoc(<<PaymentDoc>>, None))]
        /\ calls[c].result.v.variant = "Ok"
        /\ Len(calls[c].result.v.value.items) = 1
        /\ calls[c].result.v.value.next_cursor = None

\* The wire form of a create_payment call holds the key of amount and of each
\* optional field that is set, and of no other.
WireKeysAsSet(c) ==
    /\ calls[c].request.body.some
    /\ calls[c].request.body.v.t = "object"
    /\ DOMAIN calls[c].request.body.v.o
         = {"amount"} \cup {k \in OptionalFields : calls[c].args.request[k].some}

\* What decoding the wire form of a create_payment call as CreatePaymentRequest gives.
Decoded(c) == Decode("CreatePaymentRequest", calls[c].request.body.v)

\* C13 as stated: the wire form of every CreatePaymentRequest has a key for each
\* optional field that is set and none for one that is unset, and decoding it
\* gives the request back.
C13_RoundTrip ==
    \A c \in Calls :
        calls[c].op = "create_payment"
            => WireKeysAsSet(c) /\ Decoded(c) = Ok(calls[c].args.request)

\* C13 as amended: the same, for every request but one whose metadata is
\* Some(JSON null), which is written as "metadata": null and read back as None.
C13_RoundTripButNullMetadata ==
    \A c \in Calls :
        calls[c].op = "create_payment"
            => /\ WireKeysAsSet(c)
               /\ Decoded(c) = Ok(IF calls[c].args.request.metadata = Some(Null)
                                  THEN [calls[c].args.request EXCEPT !.metadata = None]
                                  ELSE calls[c].args.request)

C13_Witness ==
    \E c \in Calls :
        /\ calls[c].op = "create_payment"
        /\ calls[c].args.request = RequestWith(OptionalFields \ {"payment_token", "capture"})
        /\ DOMAIN calls[c].request.body.v.o
             = {"amount", "description", "payment_method_data", "confirmation",
                "save_payment_method", "metadata", "receipt", "payment_method_id",
                "client_ip"}
        /\ Decoded(c).ok
        /\ Decoded(c).v.receipt = Some(Sample.receipt)
        /\ Decoded(c).v.payment_token = None

\* The request an operation builds when it is the only call the client ever
\* made: the generator is fresh.
Alone(self, op, args) ==
    CASE op = "create_payment" -> create_payment(self, 0, args.request).request
      [] op = "get_payment" -> get_payment(self, 0, args.payment_id).request
      [] op = "capture_payment" ->
            capture_payment(self, 0, args.payment_id, args.request).request
      [] op = "cancel_payment" -> cancel_payment(self, 0, args.payment_id).request
      [] op = "list_payments" -> list_payments(self, 0, args.params).request

\* A request without the value of its idempotency key, which is random.
KeyBlanked(request) ==
    [request EXCEPT !.headers =
        [h \in DOMAIN request.headers |->
            IF h = IDEMPOTENCE_KEY_HEADER THEN "" ELSE request.headers[h]]]

\* C14: a step of an operation leaves the client's shop_id, secret_key and
\* base_url as they were and touches the record of one call only; the request
\* a call dispatches is, but for the random value of its key, the request it
\* builds when it runs alone on the same client; what a call was given and has
\* sent or received is never changed afterwards; and its result is the
\* classification of its own response.
C14_CallsAreIndependent ==
    [][ /\ calls' /= calls => client' = client
        /\ Len(calls') \in {Len(calls), Len(calls) + 1}
        /\ Cardinality({c \in Calls : calls'[c] /= calls[c]})
              + (Len(calls') - Len(calls)) <= 1
        /\ Len(calls') = Len(calls) + 1 =>
              LET call == calls'[Len(calls')]
              IN  KeyBlanked(call.request) = KeyBlanked(Alone(client, call.op, call.args))
        /\ \A c \in Calls :
              /\ calls'[c].op = calls[c].op
              /\ calls'[c].args = calls[c].args
              /\ calls'[c].request = calls[c].request
              /\ calls[c].response.some => calls'[c].response = calls[c].response
              /\ calls[c].result.some => calls'[c].result = calls[c].result
              /\ calls[c].pc = "process" /\ calls'[c].pc = "done" =>
                    calls'[c].result
                      = Some(process_response(ResultType(calls[c].op), calls[c].response.v))
      ]_vars

\* Two overlapping calls with the same arguments: the second has its result
\* while the first is still waiting for its response, and their requests
\* differ in the key only.
C14_Witness ==
    /\ Len(calls) = 2
    /\ calls[1].op = "get_payment" /\ calls[2].op = "get_payment"
    /\ calls[1].pc = "send"
    /\ calls[2].pc = "done" /\ calls[2].result.some /\ calls[2].result.v.variant = "Ok"
    /\ calls[1].request = calls[2].request
    /\ calls[1].request = Alone(client, "get_payment", calls[1].args)

\* A create after a create: the later request is the one built alone, but for
\* its key.
C14_KeyedOverlap ==
    /\ Len(calls) = 2
    /\ calls[1].op = "create_payment" /\ calls[2].op = "create_payment"
    /\ calls[1].args = calls[2].args
    /\ calls[1].pc = "send" /\ calls[2].pc = "process"
    /\ calls[1].request /= calls[2].request
    /\ KeyBlanked(calls[1].request) = KeyBlanked(calls[2].request)

\* C15: a call sends one request, whatever becomes of it. A call whose send
\* failed is over with the transport error as its result, has no response and
\* process_response never ran for it; a call whose send gave a response runs
\* process_response once, on that response.
C15_OneSendNoRetry ==
    \A c \in Calls :
        /\ calls[c].sends = 1
        /\ calls[c].pc = "send" => calls[c].classified = 0 /\ ~calls[c].result.some
        /\ calls[c].pc = "process" =>
              calls[c].response.some /\ calls[c].classified = 0 /\ ~calls[c].result.some
        /\ calls[c].pc = "done" /\ ~calls[c].response.some =>
              /\ calls[c].classified = 0
              /\ \E kind \in TransportErrors : calls[c].result = Some(Reqwest(kind, ""))
        /\ calls[c].pc = "done" /\ calls[c].response.some =>
              /\ calls[c].classified = 1
              /\ calls[c].result
                   = Some(process_response(ResultType(calls[c].op), calls[c].response.v))

\* A call that failed in transport next to one that was answered.
C15_Witness ==
    \E c, d \in Calls :
        /\ calls[c].pc = "done" /\ ~calls[c].response.some
        /\ calls[c].result = Some(Reqwest("timeout", ""))
        /\ calls[c].sends = 1 /\ calls[c].classified = 0
        /\ calls[d].pc = "done" /\ calls[d].response.some
        /\ calls[d].sends = 1 /\ calls[d].classified = 1

\* C16: a response outside 2xx whose body cannot be read gives an ApiError with
\* the status of the response, the placeholder as its message and no
\* error_details; it never gives a network error.
C16_UnreadableErrorBody ==
    \A c \in Done :
        LET response == calls[c].response.v
        IN  ~Is2xx(response.status) /\ response.body.kind = "read_error"
                => calls[c].result
                     = Some(ApiError(response.status, BODY_READ_PLACEHOLDER, None))

C16_Witness ==
    \E c \in Done :
        /\ calls[c].response.v.status = 500
        /\ calls[c].response.v.body.kind = "read_error"
        /\ calls[c].result.v.variant = "ApiError"
        /\ calls[c].result.v.status = 500
        /\ calls[c].result.v.message = BODY_READ_PLACEHOLDER
        /\ calls[c].result.v.error_details = None

====
